---- MODULE Spec2Model ----
(***************************************************************************)
(* A model of dsgrid/dataformat/dimmap.py: the DimensionMap hierarchy, the *)
(* UnitConversionMap factor solver and the Mappings registry.              *)
(*                                                                         *)
(* Python values are modelled as follows.                                  *)
(*   - an id is a tuple of strings: <<"a">> for a plain id, <<"c","f">>    *)
(*     for the (code, fuel) pair of a multi-fuel end-use enumeration;      *)
(*   - a value that may be None, an id or a list of ids is a record        *)
(*     [t, v]: PyNone, PyId(i), PyList(l);                                 *)
(*   - a dict is the sequence of its <<key, value>> items in insertion     *)
(*     order (Python dicts keep it; overwriting a key keeps its place);    *)
(*   - a float factor is a power of ten, kept as its exponent: 1.0E-3 is   *)
(*     -3, a product is a sum, 1.0/f is -f and 1.0 is 0. Every factor the  *)
(*     program computes from CONVERSION_FACTORS is such a power.           *)
(***************************************************************************)
EXTENDS Integers, Sequences, FiniteSets, TLC

VARIABLES
    \* UnitConversionMap.scaling_factor, one call in progress
    pc, from_unit, to_unit, these_factors, to_expand, idx, something_added,
    result,
    \* one mapping object and the outcome of the last operation on it
    obj, out, loads,
    \* the module-level registry `mappings` (its _mappings dict) and the
    \* outcome of the last get_mapping call; added records, for each key, the
    \* mapping add_mapping was last called with and whether it replaced
    \* another one
    mappings, ret, added

unitVars == <<pc, from_unit, to_unit, these_factors, to_expand, idx,
              something_added, result>>
mapVars == <<obj, out, loads>>
regVars == <<mappings, ret, added>>
vars == <<pc, from_unit, to_unit, these_factors, to_expand, idx,
          something_added, result, obj, out, loads, mappings, ret, added>>

----------------------------------------------------------------------------
(* Python data *)

PyNone == [t |-> "None", v |-> <<>>]
PyId(i) == [t |-> "id", v |-> i]
PyList(l) == [t |-> "list", v |-> l]

Range(s) == {s[i] : i \in 1..Len(s)}

\* key in d
DictHas(d, k) == \E i \in 1..Len(d) : d[i][1] = k

\* d[key] of a plain dict that holds key
DictGet(d, k) == d[CHOOSE i \in 1..Len(d) : d[i][1] = k][2]

\* d[key] = val: in place when the key is there, appended when it is not
DictSet(d, k, val) ==
    IF DictHas(d, k)
    THEN [i \in 1..Len(d) |-> IF d[i][1] = k THEN <<k, val>> ELSE d[i]]
    ELSE Append(d, <<k, val>>)

DictKeys(d) == {d[i][1] : i \in 1..Len(d)}

----------------------------------------------------------------------------
(* UnitConversionMap: the factor solver *)

\* the units a caller may name; Joules and therms are in no seed ratio
Units == {"kWh", "MWh", "GWh", "TWh", "Joules", "therms"}

CONVERSION_FACTORS ==
    << << <<"kWh", "MWh">>, -3 >>,
       << <<"MWh", "GWh">>, -3 >>,
       << <<"GWh", "TWh">>, -3 >> >>

\* multiplier = None; a multiplier m is <<m>>
NoMultiplier == <<>>

InverseKept(factor) == factor

\* 1.0 / factor
Inverse(factor) == 0 - factor

\* the loop over factors.items(): the direct entry, then the backward one
RECURSIVE GetAllFactorsLoop(_, _, _, _)
GetAllFactorsLoop(a_unit, factors, i, acc) ==
    IF i > Len(factors) THEN acc
    ELSE LET from_u == factors[i][1][1]
             to_u == factors[i][1][2]
             factor == factors[i][2]
             r1 == IF to_u = a_unit
                   THEN DictSet(acc, factors[i][1], factor) ELSE acc
             r2 == IF from_u = a_unit
                   THEN DictSet(r1, <<to_u, from_u>>, Inverse(factor)) ELSE r1
         IN GetAllFactorsLoop(a_unit, factors, i + 1, r2)

\* _get_all_factors(to_unit, factors, multiplier)
GetAllFactors(a_unit, factors, multiplier) ==
    LET res == GetAllFactorsLoop(a_unit, factors, 1, <<>>)
    IN IF multiplier = NoMultiplier THEN res
       ELSE [i \in 1..Len(res) |-> <<res[i][1], res[i][2] + multiplier[1]>>]

\* for b_key, val in candidates.items(): add c_key when it is not known.
\* Returns <<these_factors, something_added>>.
RECURSIVE AddCandidates(_, _, _, _, _)
AddCandidates(these, sa, candidates, t_unit, j) ==
    IF j > Len(candidates) THEN <<these, sa>>
    ELSE LET c_key == <<candidates[j][1][1], t_unit>>
         IN IF ~DictHas(these, c_key)
            THEN AddCandidates(Append(these, <<c_key, candidates[j][2]>>),
                               TRUE, candidates, t_unit, j + 1)
            ELSE AddCandidates(these, sa, candidates, t_unit, j + 1)

\* one turn of `for a_key, factor in to_expand`, on entry = <<a_key, factor>>
ForBody(these, sa, entry, t_unit) ==
    AddCandidates(these, sa,
                  GetAllFactors(entry[1][1], CONVERSION_FACTORS, <<entry[2]>>),
                  t_unit, 1)

InitUnits ==
    /\ pc = "idle"
    /\ from_unit = "None"
    /\ to_unit = "None"
    /\ these_factors = <<>>
    /\ to_expand = <<>>
    /\ idx = 0
    /\ something_added = FALSE
    /\ result = <<>>

\* scaling_factor is entered: lines 304-309
ScalingFactorCall(a, b) ==
    /\ UNCHANGED <<obj, out, loads, mappings, ret, added>>
    /\ pc = "idle"
    /\ from_unit' = a
    /\ to_unit' = b
    /\ these_factors' = GetAllFactors(b, CONVERSION_FACTORS, NoMultiplier)
    /\ IF DictHas(these_factors', <<a, b>>)
       THEN /\ result' = <<DictGet(these_factors', <<a, b>>)>>
            /\ pc' = "returned"
            /\ something_added' = something_added
       ELSE /\ something_added' = TRUE
            /\ pc' = "while"
            /\ result' = result
    /\ UNCHANGED <<to_expand, idx>>

AlwaysAdded(sa) == TRUE

\* something_added = False, at the top of a pass
ClearAdded(sa) == FALSE

\* `while something_added:` and, when it fails, the raise after the loop
WhileTest ==
    /\ UNCHANGED <<obj, out, loads, mappings, ret, added>>
    /\ pc = "while"
    /\ IF something_added
       THEN /\ something_added' = ClearAdded(something_added)
            /\ to_expand' = these_factors
            /\ idx' = 1
            /\ pc' = "for"
       ELSE /\ pc' = "raised"
            /\ UNCHANGED <<something_added, to_expand, idx>>
    /\ UNCHANGED <<from_unit, to_unit, these_factors, result>>

\* one turn of the for loop over the snapshot to_expand
ForStep ==
    /\ UNCHANGED <<obj, out, loads, mappings, ret, added>>
    /\ pc = "for"
    /\ idx <= Len(to_expand)
    /\ LET r == ForBody(these_factors, something_added, to_expand[idx], to_unit)
       IN /\ these_factors' = r[1]
          /\ something_added' = r[2]
    /\ idx' = idx + 1
    /\ UNCHANGED <<pc, from_unit, to_unit, to_expand, result>>

\* the for loop is exhausted: `if key in these_factors: return`
ForEnd ==
    /\ UNCHANGED <<obj, out, loads, mappings, ret, added>>
    /\ pc = "for"
    /\ idx > Len(to_expand)
    /\ IF DictHas(these_factors, <<from_unit, to_unit>>)
       THEN /\ result' = <<DictGet(these_factors, <<from_unit, to_unit>>)>>
            /\ pc' = "returned"
       ELSE /\ pc' = "while"
            /\ result' = result
    /\ UNCHANGED <<from_unit, to_unit, these_factors, to_expand, idx,
                   something_added>>

\* the call is over (a factor or DSGridNotImplemented went to the caller);
\* its locals are gone
ScalingFactorExit ==
    /\ UNCHANGED <<obj, out, loads, mappings, ret, added>>
    /\ pc \in {"returned", "raised"}
    /\ pc' = "idle"
    /\ from_unit' = "None"
    /\ to_unit' = "None"
    /\ these_factors' = <<>>
    /\ to_expand' = <<>>
    /\ idx' = 0
    /\ something_added' = FALSE
    /\ result' = <<>>

NextUnits ==
    \/ \E a \in Units, b \in Units : ScalingFactorCall(a, b)
    \/ WhileTest
    \/ ForStep
    \/ ForEnd
    \/ ScalingFactorExit

\* the same call as a function of its arguments, for the constructor of
\* UnitConversionMap: [raised |-> BOOLEAN, val |-> the factor]
RECURSIVE ForLoop(_, _, _, _, _)
ForLoop(these, sa, snapshot, t_unit, i) ==
    IF i > Len(snapshot) THEN <<these, sa>>
    ELSE LET r == ForBody(these, sa, snapshot[i], t_unit)
         IN ForLoop(r[1], r[2], snapshot, t_unit, i + 1)

RECURSIVE WhileLoop(_, _, _, _)
WhileLoop(these, sa, a, b) ==
    IF ~sa THEN [raised |-> TRUE, val |-> 0]
    ELSE LET r == ForLoop(these, ClearAdded(sa), these, b, 1)
         IN IF DictHas(r[1], <<a, b>>)
            THEN [raised |-> FALSE, val |-> DictGet(r[1], <<a, b>>)]
            ELSE WhileLoop(r[1], r[2], a, b)

scaling_factor(a, b) ==
    LET these == GetAllFactors(b, CONVERSION_FACTORS, NoMultiplier)
    IN IF DictHas(these, <<a, b>>)
       THEN [raised |-> FALSE, val |-> DictGet(these, <<a, b>>)]
       ELSE WhileLoop(these, TRUE, a, b)

----------------------------------------------------------------------------
(* Enumerations (dsgrid.dataformat.enumeration, outside this file) *)

\* the subclasses of EndUseEnumerationBase
EndUseClasses == {"EndUseEnumeration", "SingleFuelEndUseEnumeration",
                  "MultiFuelEndUseEnumeration"}

\* enumeration.ids: a multi-fuel enumeration pairs each code with its fuel
EnumIds(e) ==
    IF e.cls = "MultiFuelEndUseEnumeration"
    THEN [i \in 1..Len(e.ids_) |-> e.ids_[i] \o e.fuel_ids_[i]]
    ELSE e.ids

\* x in enumeration.ids
InIds(x, e) == x \in Range(EnumIds(e))

\* list.index(x), for x in the list
IndexOf(l, x) == CHOOSE i \in 1..Len(l) : l[i] = x /\ \A j \in 1..(i - 1) : l[j] # x

\* FuelEnumeration.get_name(fuel_id), get_units(fuel_id)
FuelGetName(fe, fuel_id) == fe.names[IndexOf(fe.ids, fuel_id)]
FuelGetUnits(fe, fuel_id) == fe.units[IndexOf(fe.ids, fuel_id)]

\* MultiFuelEndUseEnumeration.units(id): the units of the id's fuel
MultiFuelUnits(e, id) == FuelGetUnits(e.fuel_enum, <<id[2]>>)

\* from_enum == to_enum: the names and the members match
EnumEq(e1, e2) == e1.name = e2.name /\ EnumIds(e1) = EnumIds(e2)

\* from_enum.is_subset(to_enum)
IsSubset(e1, e2) == Range(EnumIds(e1)) \subseteq Range(EnumIds(e2))

----------------------------------------------------------------------------
(* The mapping classes. A constructor is [exc, obj]: the exception it ends *)
(* with ("None" when it returns) and the object it returns.                *)

NoObj == [cls |-> "None"]
Raises(e) == [exc |-> e, obj |-> NoObj]
Returns(o) == [exc |-> "None", obj |-> o]

\* DimensionMap.__init__ is the from_enum and to_enum fields of each object

\* TautologyMapping(from_to_enum)
TautologyMapping(from_to_enum) ==
    Returns([cls |-> "TautologyMapping", from_enum |-> from_to_enum,
             to_enum |-> from_to_enum])

\* len(to_enum.ids) > 1
TooManyItems(to_enum) == Len(EnumIds(to_enum)) > 1

\* some exclude_item is not in from_enum.ids
BadExclude(exclude_list, from_enum) ==
    \E i \in 1..Len(exclude_list) : ~InIds(exclude_list[i], from_enum)

\* FullAggregationMap(from_enum, to_enum, exclude_list)
FullAggregationMap(from_enum, to_enum, exclude_list) ==
    IF TooManyItems(to_enum) THEN Raises("DSGridError")
    ELSE IF Len(EnumIds(to_enum)) = 0 THEN Raises("IndexError")
    ELSE IF BadExclude(exclude_list, from_enum) THEN Raises("DSGridError")
    ELSE Returns([cls |-> "FullAggregationMap", from_enum |-> from_enum,
                  to_enum |-> to_enum, to_id |-> EnumIds(to_enum)[1],
                  exclude_list |-> exclude_list])

\* FilterToSubsetMap(from_enum, to_enum)
FilterToSubsetMap(from_enum, to_enum) ==
    IF \E i \in 1..Len(EnumIds(to_enum)) : ~InIds(EnumIds(to_enum)[i], from_enum)
    THEN Raises("DSGridError")
    ELSE Returns([cls |-> "FilterToSubsetMap", from_enum |-> from_enum,
                  to_enum |-> to_enum])

\* the loop of FilterToSingleFuelMap.__init__ over enumerate(from_enum.ids):
\* acc is [ids, names, map]
RECURSIVE SingleFuelLoop(_, _, _, _)
SingleFuelLoop(from_enum, fuel_to_keep, i, acc) ==
    IF i > Len(EnumIds(from_enum)) THEN acc
    ELSE LET id == EnumIds(from_enum)[i]
         IN IF <<id[2]>> = fuel_to_keep
            THEN SingleFuelLoop(from_enum, fuel_to_keep, i + 1,
                    [ids |-> Append(acc.ids, <<id[1]>>),
                     names |-> Append(acc.names, from_enum.names_[i]),
                     map |-> DictSet(acc.map, id, PyId(<<id[1]>>))])
            ELSE SingleFuelLoop(from_enum, fuel_to_keep, i + 1,
                    [acc EXCEPT !.map = DictSet(acc.map, id, PyNone)])

\* FilterToSingleFuelMap(from_enum, fuel_to_keep)
FilterToSingleFuelMap(from_enum, fuel_to_keep) ==
    IF from_enum.cls # "MultiFuelEndUseEnumeration" THEN Raises("AssertionError")
    ELSE IF fuel_to_keep \notin Range(from_enum.fuel_enum.ids)
    THEN Raises("AssertionError")
    ELSE LET r == SingleFuelLoop(from_enum, fuel_to_keep, 1,
                                 [ids |-> <<>>, names |-> <<>>, map |-> <<>>])
             fuel_name == FuelGetName(from_enum.fuel_enum, fuel_to_keep)
             to_enum == [cls |-> "SingleFuelEndUseEnumeration",
                         name |-> Append(from_enum.name, fuel_name),
                         ids |-> r.ids, names |-> r.names,
                         fuel |-> fuel_name,
                         units |-> FuelGetUnits(from_enum.fuel_enum, fuel_to_keep)]
         IN Returns([cls |-> "FilterToSingleFuelMap", from_enum |-> from_enum,
                     to_enum |-> to_enum, map_ |-> r.map])

\* ExplicitAggregation._make_dictmap(mapdata): a plain dict, a later row of
\* a from_key replacing an earlier one. mapdata is [columns, rows].
RECURSIVE AggregationMakeDictmap(_, _, _)
AggregationMakeDictmap(mapdata, i, acc) ==
    IF i > Len(mapdata.rows) THEN acc
    ELSE LET row == mapdata.rows[i]
             from_key == IF "from_fuel_id" \in mapdata.columns
                         THEN row.from_id \o row.from_fuel_id ELSE row.from_id
             to_key == IF "to_fuel_id" \in mapdata.columns
                       THEN row.to_id \o row.to_fuel_id ELSE row.to_id
         IN AggregationMakeDictmap(mapdata, i + 1, DictSet(acc, from_key, to_key))

\* ExplicitDisaggregation._make_dictmap(mapdata): result[from_id].append(to_id)
RECURSIVE DisaggregationMakeDictmap(_, _, _)
DisaggregationMakeDictmap(mapdata, i, acc) ==
    IF i > Len(mapdata.rows) THEN acc
    ELSE LET row == mapdata.rows[i]
             old == IF DictHas(acc, row.from_id)
                    THEN DictGet(acc, row.from_id) ELSE <<>>
         IN DisaggregationMakeDictmap(mapdata, i + 1,
                DictSet(acc, row.from_id, Append(old, row.to_id)))

ToIdUnchecked(to_id, to_enum) == FALSE

\* to_id not in self.to_enum.ids
ToIdOutside(to_id, to_enum) == ~InIds(to_id, to_enum)

\* the loop of ExplicitAggregation.__init__ over dictmap.items(); acc is
\* self._dictmap, a defaultdict(lambda: None)
RECURSIVE AggregationLoop(_, _, _, _, _)
AggregationLoop(from_enum, to_enum, dictmap, i, acc) ==
    IF i > Len(dictmap) THEN Returns(acc)
    ELSE IF ~InIds(dictmap[i][1], from_enum) THEN Raises("DSGridError")
    ELSE IF ToIdOutside(dictmap[i][2], to_enum) THEN Raises("DSGridError")
    ELSE AggregationLoop(from_enum, to_enum, dictmap, i + 1,
                         DictSet(acc, dictmap[i][1], PyId(dictmap[i][2])))

\* ExplicitAggregation(from_enum, to_enum, dictmap)
ExplicitAggregation(from_enum, to_enum, dictmap) ==
    LET r == AggregationLoop(from_enum, to_enum, dictmap, 1, <<>>)
    IN IF r.exc # "None" THEN Raises(r.exc)
       ELSE Returns([cls |-> "ExplicitAggregation", from_enum |-> from_enum,
                     to_enum |-> to_enum, dictmap_ |-> r.obj])

\* the loop of ExplicitDisaggregation.__init__ over dictmap.items(); acc is
\* self._dictmap, a defaultdict(lambda: [])
RECURSIVE DisaggregationLoop(_, _, _, _, _)
DisaggregationLoop(from_enum, to_enum, dictmap, i, acc) ==
    IF i > Len(dictmap) THEN Returns(acc)
    ELSE IF ~InIds(dictmap[i][1], from_enum) THEN Raises("DSGridError")
    ELSE IF \E j \in 1..Len(dictmap[i][2]) : ToIdOutside(dictmap[i][2][j], to_enum)
    THEN Raises("DSGridError")
    ELSE DisaggregationLoop(from_enum, to_enum, dictmap, i + 1,
                            DictSet(acc, dictmap[i][1], PyList(dictmap[i][2])))

NoDatafile == [cls |-> "None"]

\* Datafile.contains(enum): enum is one of the four enumerations the file
\* is expressed against
DatafileContains(datafile, enum) ==
    \E i \in 1..Len(datafile.enums) : datafile.enums[i] = enum

NoDatatable == [cls |-> "None"]

\* ExplicitDisaggregation(from_enum, to_enum, dictmap, scaling_datafile)
ExplicitDisaggregation(from_enum, to_enum, dictmap, scaling_datafile) ==
    LET r == DisaggregationLoop(from_enum, to_enum, dictmap, 1, <<>>)
    IN IF r.exc # "None" THEN Raises(r.exc)
       ELSE IF /\ scaling_datafile # NoDatafile
               /\ ~DatafileContains(scaling_datafile, to_enum)
       THEN Raises("DSGridError")
       ELSE Returns([cls |-> "ExplicitDisaggregation", from_enum |-> from_enum,
                     to_enum |-> to_enum, dictmap_ |-> r.obj,
                     scaling_datafile_ |-> scaling_datafile,
                     scaling_datatable_ |-> NoDatatable])

\* create_from_csv of the two classes, on the table pd.read_csv returns
AggregationCreateFromCsv(from_enum, to_enum, mapdata) ==
    ExplicitAggregation(from_enum, to_enum,
                        AggregationMakeDictmap(mapdata, 1, <<>>))

DisaggregationCreateFromCsv(from_enum, to_enum, mapdata, scaling_datafile) ==
    ExplicitDisaggregation(from_enum, to_enum,
                           DisaggregationMakeDictmap(mapdata, 1, <<>>),
                           scaling_datafile)

\* str.lower() on the names of units
Lower(u) ==
    CASE u = "kWh" -> "kwh"
      [] u = "MWh" -> "mwh"
      [] u = "GWh" -> "gwh"
      [] u = "TWh" -> "twh"
      [] u = "Joules" -> "joules"
      [] OTHER -> u

\* name.replace(old, new); a name is the sequence of its words
Replace(name, old, new) ==
    [i \in 1..Len(name) |-> IF name[i] = old THEN new ELSE name[i]]

\* the units of the converted fuel enumeration (lines 269-274)
ToFuelEnumUnits(fuel_units, from_units, to_units) ==
    [i \in 1..Len(fuel_units) |->
        IF fuel_units[i] \in Range(from_units)
        THEN to_units[IndexOf(from_units, fuel_units[i])]
        ELSE fuel_units[i]]

\* the loop over from_enum.ids that fills self._scale_map (lines 286-289);
\* acc is the defaultdict(lambda: 1.0)
RECURSIVE ScaleMapLoop(_, _, _, _, _)
ScaleMapLoop(from_enum, from_units, to_units, i, acc) ==
    IF i > Len(EnumIds(from_enum)) THEN Returns(acc)
    ELSE LET id == EnumIds(from_enum)[i]
             u == MultiFuelUnits(from_enum, id)
         IN IF u \in Range(from_units)
            THEN LET f == scaling_factor(u, to_units[IndexOf(from_units, u)])
                 IN IF f.raised THEN Raises("DSGridNotImplemented")
                    ELSE ScaleMapLoop(from_enum, from_units, to_units, i + 1,
                                      DictSet(acc, id, f.val))
            ELSE ScaleMapLoop(from_enum, from_units, to_units, i + 1, acc)

\* the single-fuel branch of UnitConversionMap.__init__ (lines 252-262)
UnitConversionSingle(from_enum, from_units, to_units) ==
    IF Len(from_units) # 1 THEN Raises("AssertionError")
    ELSE IF from_units[1] # from_enum.units THEN Raises("AssertionError")
    ELSE LET to_enum_name ==
                 Replace(Replace(from_enum.name, from_units[1], to_units[1]),
                         Lower(from_units[1]), Lower(to_units[1]))
             to_enum == [cls |-> "SingleFuelEndUseEnumeration",
                         name |-> to_enum_name, ids |-> from_enum.ids,
                         names |-> from_enum.names, fuel |-> from_enum.fuel,
                         units |-> to_units[1]]
             f == scaling_factor(from_units[1], to_units[1])
         IN IF f.raised THEN Raises("DSGridNotImplemented")
            ELSE Returns([cls |-> "UnitConversionMap", from_enum |-> from_enum,
                          to_enum |-> to_enum,
                          scale_map_ |-> [isdict |-> FALSE, d |-> <<>>,
                                          f |-> f.val]])

\* the multi-fuel branch of UnitConversionMap.__init__ (lines 264-289)
UnitConversionMulti(from_enum, from_units, to_units) ==
    IF from_enum.cls # "MultiFuelEndUseEnumeration" THEN Raises("AssertionError")
    ELSE IF \E i \in 1..Len(from_units) :
                from_units[i] \notin Range(from_enum.fuel_enum.units)
    THEN Raises("AssertionError")
    ELSE LET to_fuel_enum ==
                 [from_enum.fuel_enum EXCEPT
                    !.units = ToFuelEnumUnits(from_enum.fuel_enum.units,
                                              from_units, to_units)]
             to_enum == [from_enum EXCEPT !.fuel_enum = to_fuel_enum]
             r == ScaleMapLoop(from_enum, from_units, to_units, 1, <<>>)
         IN IF r.exc # "None" THEN Raises(r.exc)
            ELSE Returns([cls |-> "UnitConversionMap", from_enum |-> from_enum,
                          to_enum |-> to_enum,
                          scale_map_ |-> [isdict |-> TRUE, d |-> r.obj,
                                          f |-> 0]])

\* UnitConversionMap(from_enum, from_units, to_units)
UnitConversionMap(from_enum, from_units, to_units) ==
    IF from_enum.cls \notin EndUseClasses THEN Raises("AssertionError")
    ELSE IF from_enum.cls = "EndUseEnumeration" THEN Raises("AssertionError")
    ELSE IF Len(from_units) # Len(to_units) THEN Raises("AssertionError")
    ELSE IF Len(from_units) = 0 THEN Raises("AssertionError")
    ELSE IF from_enum.cls = "SingleFuelEndUseEnumeration"
    THEN UnitConversionSingle(from_enum, from_units, to_units)
    ELSE UnitConversionMulti(from_enum, from_units, to_units)

----------------------------------------------------------------------------
(* map and scale_factor. A call is [exc, val, obj]: the exception it ends  *)
(* with, the value it returns and the object as the call leaves it.        *)

CallReturns(val, o) == [exc |-> "None", val |-> val, obj |-> o]
CallRaises(e, o) == [exc |-> e, val |-> PyNone, obj |-> o]

\* d[key] of a defaultdict: a missing key is first set to the default.
\* <<value, the dict afterwards>>
DefaultDictGet(d, k, default) ==
    IF DictHas(d, k) THEN <<DictGet(d, k), d>>
    ELSE <<default, Append(d, <<k, default>>)>>

\* FilterToSubsetMap.map
SubsetMap(o, from_id) ==
    IF InIds(from_id, o.to_enum) THEN CallReturns(PyId(from_id), o)
    ELSE CallReturns(PyNone, o)

\* ExplicitMap.map, inherited by ExplicitAggregation (default None) and
\* ExplicitDisaggregation (default [])
ExplicitMapMap(o, from_id) ==
    LET default == IF o.cls = "ExplicitDisaggregation" THEN PyList(<<>>)
                   ELSE PyNone
        r == DefaultDictGet(o.dictmap_, from_id, default)
    IN CallReturns(r[1], [o EXCEPT !.dictmap_ = r[2]])

\* mapping.map(from_id), by the class of the object
Map(o, from_id) ==
    CASE o.cls = "DimensionMap" -> CallReturns(PyNone, o)
      [] o.cls = "TautologyMapping" -> CallReturns(PyId(from_id), o)
      [] o.cls = "FullAggregationMap" ->
            IF from_id \in Range(o.exclude_list) THEN CallReturns(PyNone, o)
            ELSE CallReturns(PyId(o.to_id), o)
      [] o.cls = "FilterToSubsetMap" -> SubsetMap(o, from_id)
      [] o.cls = "FilterToSingleFuelMap" ->
            IF DictHas(o.map_, from_id)
            THEN CallReturns(DictGet(o.map_, from_id), o)
            ELSE CallRaises("KeyError", o)
      [] o.cls \in {"ExplicitAggregation", "ExplicitDisaggregation"} ->
            ExplicitMapMap(o, from_id)
      [] o.cls = "UnitConversionMap" -> CallReturns(PyId(from_id), o)

\* mapping.scale_factor(from_id): a factor, as its exponent
ScaleFactor(o, from_id) ==
    IF o.cls = "UnitConversionMap"
    THEN IF o.scale_map_.isdict
         THEN LET r == DefaultDictGet(o.scale_map_.d, from_id, 0)
              IN CallReturns(r[1], [o EXCEPT !.scale_map_.d = r[2]])
         ELSE CallReturns(o.scale_map_.f, o)
    ELSE CallReturns(0, o)

----------------------------------------------------------------------------
(* ExplicitDisaggregation: the scaling table. A weight is the fraction     *)
(* <<numerator, denominator>>; 1.0 is <<1, 1>>. An access is               *)
(* [exc, val, obj, loaded]: loaded counts the calls of Datatable(...).     *)

\* self.default_scaling
DefaultScaling(o) == o.scaling_datafile_ = NoDatafile

\* Datatable(datafile): the file's values, in memory
Datatable(datafile) == [cls |-> "Datatable", source |-> datafile]

NeverCached(o, table) == o

\* self._scaling_datatable = Datatable(self._scaling_datafile)
CacheTable(o, table) == [o EXCEPT !.scaling_datatable_ = table]

\* the property scaling_datatable
ScalingDatatable(o) ==
    IF DefaultScaling(o)
    THEN [exc |-> "AssertionError", val |-> NoDatatable, obj |-> o, loaded |-> 0]
    ELSE IF o.scaling_datatable_ = NoDatatable
    THEN LET table == Datatable(o.scaling_datafile_)
         IN [exc |-> "None", val |-> table, obj |-> CacheTable(o, table),
             loaded |-> 1]
    ELSE [exc |-> "None", val |-> o.scaling_datatable_, obj |-> o, loaded |-> 0]

RECURSIVE SumOver(_, _)
SumOver(f, S) ==
    IF S = {} THEN 0
    ELSE LET x == CHOOSE y \in S : TRUE IN f[x] + SumOver(f, S \ {x})

\* the table restricted to to_ids on one axis, summed by id of that axis:
\* a row is taken once for each time its id is listed
GroupSums(table, to_ids) ==
    [id \in Range(to_ids) |->
        DictGet(table.source.totals, id)
            * Cardinality({i \in 1..Len(to_ids) : to_ids[i] = id})]

\* the classes get_scalings knows an axis for
AxisClasses == {"SectorEnumeration", "GeographyEnumeration", "TimeEnumeration"}
                  \cup EndUseClasses

\* get_scalings(to_ids)
GetScalings(o, to_ids) ==
    IF DefaultScaling(o)
    THEN [exc |-> "None", val |-> [i \in 1..Len(to_ids) |-> <<1, 1>>],
          obj |-> o, loaded |-> 0]
    ELSE IF o.to_enum.cls \notin AxisClasses
    THEN [exc |-> "AssertionError", val |-> <<>>, obj |-> o, loaded |-> 0]
    ELSE LET a == ScalingDatatable(o)
         IN IF \E i \in 1..Len(to_ids) :
                  ~DictHas(a.val.source.totals, to_ids[i])
            THEN [exc |-> "KeyError", val |-> <<>>, obj |-> a.obj,
                  loaded |-> a.loaded]
            ELSE LET temp == GroupSums(a.val, to_ids)
                     total == SumOver(temp, Range(to_ids))
                 IN [exc |-> "None",
                     val |-> [i \in 1..Len(to_ids) |-> <<temp[to_ids[i]], total>>],
                     obj |-> a.obj, loaded |-> a.loaded]

----------------------------------------------------------------------------
(* The arguments the mapping objects are built from and called with *)

MaxExclude == 2
MaxRows == 2
MaxUnits == 2
MaxToIds == 2

Ids == {<<"a">>, <<"b">>}

\* the duplicate-free id lists of an enumeration
IdLists == {<<>>, << <<"a">> >>, << <<"b">> >>, << <<"a">>, <<"b">> >>}

SeqsUpTo(S, n) == UNION {[1..k -> S] : k \in 0..n}

PlainEnum(cls, name, ids) == [cls |-> cls, name |-> name, ids |-> ids]

FromEnums == {PlainEnum("GeographyEnumeration", <<"F">>, l) : l \in IdLists}
ToEnums == {PlainEnum("GeographyEnumeration", <<"T">>, l) : l \in IdLists}

ExcludeLists == SeqsUpTo(Ids, MaxExclude)

\* the to_ids get_scalings is asked about; "z" is in no data file
ToIdLists == SeqsUpTo(Ids \cup {<<"z">>}, MaxToIds)

\* the to_enums of a disaggregation with a scaling table, one class for
\* each axis
DisaggregationToEnums ==
    {PlainEnum(c, <<"T">>, l) :
        c \in {"SectorEnumeration", "GeographyEnumeration",
               "EndUseEnumeration", "TimeEnumeration"},
        l \in {<< <<"a">> >>, << <<"a">>, <<"b">> >>}}

ScalingFromEnums ==
    {PlainEnum("GeographyEnumeration", <<"F">>, << <<"a">>, <<"b">> >>)}

\* correspondence tables: none, a to a and b, a to a and b to b
ScalingMapdatas ==
    {[columns |-> {"from_id", "to_id"}, rows |-> r] :
        r \in {<<>>,
               <<[from_id |-> <<"a">>, to_id |-> <<"a">>],
                 [from_id |-> <<"a">>, to_id |-> <<"b">>]>>,
               <<[from_id |-> <<"a">>, to_id |-> <<"a">>],
                 [from_id |-> <<"b">>, to_id |-> <<"b">>]>>}}

Mapdatas ==
    {[columns |-> {"from_id", "to_id"}, rows |-> r] :
        r \in SeqsUpTo([from_id : Ids, to_id : Ids], MaxRows)}

\* a data file expressed against enum on the axis of its class, and against
\* enumerations of its own on the other axes; totals are the sums of its
\* values by id
Datafile(enum) ==
    LET own == <<PlainEnum("SectorEnumeration", <<"sectors">>, << <<"a">> >>),
                 PlainEnum("GeographyEnumeration", <<"G">>, << <<"a">> >>),
                 PlainEnum("EndUseEnumeration", <<"enduses">>, << <<"a">> >>),
                 PlainEnum("TimeEnumeration", <<"annual">>, << <<"a">> >>)>>
        axis == CASE enum.cls = "SectorEnumeration" -> 1
                  [] enum.cls = "GeographyEnumeration" -> 2
                  [] enum.cls \in EndUseClasses -> 3
                  [] OTHER -> 4
    IN [cls |-> "Datafile",
        enums |-> [own EXCEPT ![axis] = enum],
        totals |-> << << <<"a">>, 1 >>, << <<"b">>, 3 >> >>]

\* a data file that is not expressed against any to_enum of the model
OtherDatafile ==
    Datafile(PlainEnum("GeographyEnumeration", <<"G">>, << <<"a">> >>))

FuelEnum ==
    [cls |-> "FuelEnumeration", name |-> <<"fuels">>,
     ids |-> << <<"elec">>, <<"gas">> >>,
     names |-> <<"Electricity", "Natural Gas">>,
     units |-> <<"kWh", "therms">>]

FuelPairs == {<<c, f>> : c \in {"heat", "cool"}, f \in {"elec", "gas"}}

\* the (code, fuel) lists of a multi-fuel enumeration: one or two pairs
PairLists ==
    {<<>>} \cup {<<p>> : p \in FuelPairs}
           \cup {<< <<"heat", "elec">>, q >> :
                        q \in FuelPairs \ {<<"heat", "elec">>}}
           \cup {<< <<"heat", "gas">>, <<"cool", "gas">> >>}

MultiFuelEnum(pairs) ==
    [cls |-> "MultiFuelEndUseEnumeration", name |-> <<"enduses">>,
     ids_ |-> [i \in 1..Len(pairs) |-> <<pairs[i][1]>>],
     names_ |-> [i \in 1..Len(pairs) |-> pairs[i][1]],
     fuel_enum |-> FuelEnum,
     fuel_ids_ |-> [i \in 1..Len(pairs) |-> <<pairs[i][2]>>]]

MultiFuelEnums == {MultiFuelEnum(p) : p \in PairLists}

SingleFuelEnum(units) ==
    [cls |-> "SingleFuelEndUseEnumeration", name |-> <<"enduses", units>>,
     ids |-> << <<"heat">>, <<"cool">> >>, names |-> <<"heat", "cool">>,
     fuel |-> "Electricity", units |-> units]

EndUseEnums ==
    MultiFuelEnums \cup {SingleFuelEnum("kWh"), SingleFuelEnum("therms")}
        \cup {PlainEnum("EndUseEnumeration", <<"enduses">>, << <<"heat">> >>),
              PlainEnum("GeographyEnumeration", <<"F">>, << <<"a">> >>)}

\* the unit lists a UnitConversionMap is asked to convert
UnitLists == SeqsUpTo({"kWh", "GWh", "therms"}, MaxUnits)

\* the ids map and scale_factor are called with: the ids of the object's
\* from_enum, and ids that may lie outside it
CallIds(o) ==
    IF o = NoObj THEN {}
    ELSE Range(EnumIds(o.from_enum))
            \cup (IF o.from_enum.cls \in EndUseClasses
                  THEN {<<"heat">>, <<"heat", "elec">>} ELSE Ids)

----------------------------------------------------------------------------
(* One mapping object: built, called, dropped *)

NoOut == [op |-> "none"]

InitMap ==
    /\ obj = NoObj
    /\ out = NoOut
    /\ loads = 0

\* m = cls(...): the name m is bound only when the constructor returns
Construct(call, r) ==
    /\ obj' = r.obj
    /\ out' = [op |-> "construct", call |-> call, exc |-> r.exc]
    /\ loads' = 0
    /\ UNCHANGED <<pc, from_unit, to_unit, these_factors, to_expand, idx,
                   something_added, result, mappings, ret, added>>

\* no object is held and no call is pending
Fresh == obj = NoObj /\ out = NoOut

ConstructDimensionMap(f, t) ==
    /\ Fresh
    /\ Construct([cls |-> "DimensionMap", from_enum |-> f, to_enum |-> t],
                 Returns([cls |-> "DimensionMap", from_enum |-> f,
                          to_enum |-> t]))

ConstructTautology(e) ==
    /\ Fresh
    /\ Construct([cls |-> "TautologyMapping", from_enum |-> e],
                 TautologyMapping(e))

ConstructFullAggregation(f, t, x) ==
    /\ Fresh
    /\ Construct([cls |-> "FullAggregationMap", from_enum |-> f,
                  to_enum |-> t, exclude_list |-> x],
                 FullAggregationMap(f, t, x))

ConstructFilterToSubset(f, t) ==
    /\ Fresh
    /\ Construct([cls |-> "FilterToSubsetMap", from_enum |-> f, to_enum |-> t],
                 FilterToSubsetMap(f, t))

ConstructFilterToSingleFuel(f, fuel) ==
    /\ Fresh
    /\ Construct([cls |-> "FilterToSingleFuelMap", from_enum |-> f,
                  fuel_to_keep |-> fuel],
                 FilterToSingleFuelMap(f, fuel))

ConstructAggregation(f, t, mapdata) ==
    /\ Fresh
    /\ Construct([cls |-> "ExplicitAggregation", from_enum |-> f,
                  to_enum |-> t,
                  dictmap |-> AggregationMakeDictmap(mapdata, 1, <<>>)],
                 AggregationCreateFromCsv(f, t, mapdata))

ConstructDisaggregation(f, t, mapdata, datafile) ==
    /\ Fresh
    /\ Construct([cls |-> "ExplicitDisaggregation", from_enum |-> f,
                  to_enum |-> t,
                  dictmap |-> DisaggregationMakeDictmap(mapdata, 1, <<>>),
                  scaling_datafile |-> datafile],
                 DisaggregationCreateFromCsv(f, t, mapdata, datafile))

ConstructUnitConversion(f, from_units, to_units) ==
    /\ Fresh
    /\ Construct([cls |-> "UnitConversionMap", from_enum |-> f,
                  from_units |-> from_units, to_units |-> to_units],
                 UnitConversionMap(f, from_units, to_units))

\* m.map(from_id)
MapCall(from_id) ==
    /\ UNCHANGED <<pc, from_unit, to_unit, these_factors, to_expand, idx,
                   something_added, result, mappings, ret, added>>
    /\ obj # NoObj
    /\ LET r == Map(obj, from_id)
       IN /\ obj' = r.obj
          /\ out' = [op |-> "map", arg |-> from_id, exc |-> r.exc,
                     val |-> r.val]
    /\ UNCHANGED loads

\* m.scale_factor(from_id)
ScaleFactorCall(from_id) ==
    /\ UNCHANGED <<pc, from_unit, to_unit, these_factors, to_expand, idx,
                   something_added, result, mappings, ret, added>>
    /\ obj # NoObj
    /\ LET r == ScaleFactor(obj, from_id)
       IN /\ obj' = r.obj
          /\ out' = [op |-> "scale_factor", arg |-> from_id, exc |-> r.exc,
                     val |-> r.val]
    /\ UNCHANGED loads

\* m.scaling_datatable
ScalingDatatableAccess ==
    /\ UNCHANGED <<pc, from_unit, to_unit, these_factors, to_expand, idx,
                   something_added, result, mappings, ret, added>>
    /\ obj # NoObj
    /\ obj.cls = "ExplicitDisaggregation"
    /\ LET r == ScalingDatatable(obj)
       IN /\ obj' = r.obj
          /\ out' = [op |-> "scaling_datatable", exc |-> r.exc]
          /\ loads' = loads + r.loaded

\* m.get_scalings(to_ids)
GetScalingsCall(to_ids) ==
    /\ UNCHANGED <<pc, from_unit, to_unit, these_factors, to_expand, idx,
                   something_added, result, mappings, ret, added>>
    /\ obj # NoObj
    /\ obj.cls = "ExplicitDisaggregation"
    /\ LET r == GetScalings(obj, to_ids)
       IN /\ obj' = r.obj
          /\ out' = [op |-> "get_scalings", arg |-> to_ids, exc |-> r.exc,
                     val |-> r.val]
          /\ loads' = loads + r.loaded

\* the object, or the exception of a failed constructor, is dropped
Discard ==
    /\ UNCHANGED <<pc, from_unit, to_unit, these_factors, to_expand, idx,
                   something_added, result, mappings, ret, added>>
    /\ out # NoOut
    /\ obj' = NoObj
    /\ out' = NoOut
    /\ loads' = 0

NextMap ==
    \/ Fresh /\ \E f \in FromEnums, t \in ToEnums : ConstructDimensionMap(f, t)
    \/ Fresh /\ \E e \in FromEnums : ConstructTautology(e)
    \/ Fresh /\ \E f \in FromEnums, t \in ToEnums, x \in ExcludeLists :
          ConstructFullAggregation(f, t, x)
    \/ Fresh /\ \E f \in FromEnums, t \in FromEnums \cup ToEnums :
          ConstructFilterToSubset(f, t)
    \/ Fresh /\ \E f \in EndUseEnums, fuel \in {<<"elec">>, <<"gas">>, <<"coal">>} :
          ConstructFilterToSingleFuel(f, fuel)
    \/ Fresh /\ \E f \in FromEnums, t \in ToEnums, m \in Mapdatas :
          ConstructAggregation(f, t, m)
    \/ Fresh /\ \E f \in FromEnums, t \in ToEnums, m \in Mapdatas :
          \E d \in {NoDatafile, Datafile(t), OtherDatafile} :
             ConstructDisaggregation(f, t, m, d)
    \/ Fresh /\ \E f \in EndUseEnums, fu \in UnitLists, tu \in UnitLists :
          ConstructUnitConversion(f, fu, tu)
    \/ \E id \in CallIds(obj) : MapCall(id)
    \/ \E id \in CallIds(obj) : ScaleFactorCall(id)
    \/ Discard

\* a disaggregation and its scaling table
NextScaling ==
    \/ Fresh /\ \E f \in ScalingFromEnums, t \in DisaggregationToEnums,
                   m \in ScalingMapdatas :
          \E d \in {NoDatafile, Datafile(t), OtherDatafile} :
             ConstructDisaggregation(f, t, m, d)
    \/ ScalingDatatableAccess
    \/ \E to_ids \in ToIdLists : GetScalingsCall(to_ids)
    \/ \E id \in CallIds(obj) : MapCall(id)
    \/ Discard

----------------------------------------------------------------------------
(* The registry: Mappings and the module-level instance `mappings` *)

NoRet == [op |-> "none"]

\* Mappings.__init__: self._mappings = defaultdict(lambda: None)
InitReg ==
    /\ mappings = <<>>
    /\ ret = NoRet
    /\ added = <<>>

\* the key a mapping is stored under
KeyOf(mapping) == <<mapping.from_enum.name, mapping.to_enum.name>>

StoreKeepFirst(reg, mapping) ==
    IF DictHas(reg, KeyOf(mapping)) THEN reg
    ELSE Append(reg, <<KeyOf(mapping), mapping>>)

\* self._mappings[(mapping.from_enum.name, mapping.to_enum.name)] = mapping
Store(reg, mapping) == DictSet(reg, KeyOf(mapping), mapping)

\* the from_enum get_mapping reads off the datafile, by the class of to_enum
\* (lines 356-366); <<>> when the class is not recognized
FromEnumOf(datafile, to_enum) ==
    CASE to_enum.cls = "SectorEnumeration" -> <<datafile.sector_enum>>
      [] to_enum.cls = "GeographyEnumeration" -> <<datafile.geo_enum>>
      [] to_enum.cls \in EndUseClasses -> <<datafile.enduse_enum>>
      [] to_enum.cls = "TimeEnumeration" -> <<datafile.time_enum>>
      [] OTHER -> <<>>

ExactLookupUnguarded(reg, key) ==
    LET r == DefaultDictGet(reg, key, NoObj)
    IN [found |-> r[1] # NoObj, val |-> r[1], reg |-> r[2]]

\* `if key in self._mappings: return self._mappings[key]`: the test does
\* not touch the defaultdict, the subscript reads a key that is there
ExactLookup(reg, key) ==
    IF DictHas(reg, key)
    THEN LET r == DefaultDictGet(reg, key, NoObj)
         IN [found |-> TRUE, val |-> r[1], reg |-> r[2]]
    ELSE [found |-> FALSE, val |-> NoObj, reg |-> reg]

CandidatesUnfiltered(reg, to_enum) == [i \in 1..Len(reg) |-> reg[i][2]]

\* [mapping for key, mapping in self._mappings.items()
\*  if key[1] == to_enum.name]
Candidates(reg, to_enum) ==
    LET keep == {i \in 1..Len(reg) : reg[i][1][2] = to_enum.name}
        nth[k \in 0..Len(reg)] ==
            IF k = 0 THEN 0
            ELSE CHOOSE i \in keep : i > nth[k - 1] /\
                        \A j \in keep : j > nth[k - 1] => i <= j
    IN [k \in 1..Cardinality(keep) |-> reg[nth[k]][2]]

\* the scan of the candidates (lines 380-388): the first one whose
\* from_enum.ids holds every id of from_enum, else None. A None among the
\* candidates has no from_enum (AttributeError).
RECURSIVE FirstOkay(_, _, _, _)
FirstOkay(candidates, from_enum, i, reg) ==
    IF i > Len(candidates) THEN [exc |-> "None", val |-> NoObj, reg |-> reg]
    ELSE IF Len(EnumIds(from_enum)) > 0 /\ candidates[i] = NoObj
    THEN [exc |-> "AttributeError", val |-> NoObj, reg |-> reg]
    ELSE IF \A j \in 1..Len(EnumIds(from_enum)) :
                InIds(EnumIds(from_enum)[j], candidates[i].from_enum)
    THEN [exc |-> "None", val |-> candidates[i], reg |-> reg]
    ELSE FirstOkay(candidates, from_enum, i + 1, reg)

ResolveTautologyFirst(reg, from_enum, to_enum) ==
    IF EnumEq(from_enum, to_enum) \/ IsSubset(from_enum, to_enum)
    THEN [exc |-> "None", val |-> TautologyMapping(to_enum).obj, reg |-> reg]
    ELSE LET x == ExactLookup(reg, <<from_enum.name, to_enum.name>>)
         IN IF x.found THEN [exc |-> "None", val |-> x.val, reg |-> x.reg]
            ELSE FirstOkay(Candidates(x.reg, to_enum), from_enum, 1, x.reg)

\* get_mapping from line 368 on: the exact key, the tautologies, the scan
Resolve(reg, from_enum, to_enum) ==
    LET x == ExactLookup(reg, <<from_enum.name, to_enum.name>>)
    IN IF x.found THEN [exc |-> "None", val |-> x.val, reg |-> x.reg]
       ELSE IF EnumEq(from_enum, to_enum)
       THEN [exc |-> "None", val |-> TautologyMapping(to_enum).obj,
             reg |-> x.reg]
       ELSE IF IsSubset(from_enum, to_enum)
       THEN [exc |-> "None", val |-> TautologyMapping(to_enum).obj,
             reg |-> x.reg]
       ELSE FirstOkay(Candidates(x.reg, to_enum), from_enum, 1, x.reg)

\* Mappings.get_mapping(datafile, to_enum): [exc, val, reg], val the
\* mapping returned (NoObj for None), reg the registry as the call leaves it
GetMapping(reg, datafile, to_enum) ==
    IF FromEnumOf(datafile, to_enum) = <<>>
    THEN [exc |-> "DSGridError", val |-> NoObj, reg |-> reg]
    ELSE Resolve(reg, FromEnumOf(datafile, to_enum)[1], to_enum)

\* mappings.add_mapping(mapping)
AddMapping(mapping) ==
    /\ UNCHANGED <<pc, from_unit, to_unit, these_factors, to_expand, idx,
                   something_added, result, obj, out, loads>>
    /\ ret = NoRet
    /\ mappings' = Store(mappings, mapping)
    /\ added' = [k \in DOMAIN added \cup {KeyOf(mapping)} |->
                    IF k # KeyOf(mapping) THEN added[k]
                    ELSE [mapping |-> mapping,
                          rewritten |-> /\ k \in DOMAIN added
                                        /\ \/ added[k].rewritten
                                           \/ added[k].mapping # mapping]]
    /\ ret' = NoRet

\* mappings.get_mapping(datafile, to_enum)
GetMappingCall(datafile, to_enum) ==
    /\ UNCHANGED <<pc, from_unit, to_unit, these_factors, to_expand, idx,
                   something_added, result, obj, out, loads>>
    /\ ret = NoRet
    /\ LET r == GetMapping(mappings, datafile, to_enum)
       IN /\ mappings' = r.reg
          /\ ret' = [op |-> "get_mapping", datafile |-> datafile,
                     to_enum |-> to_enum, exc |-> r.exc, val |-> r.val]
    /\ UNCHANGED added

\* the caller has taken what get_mapping returned or raised
GetMappingExit ==
    /\ UNCHANGED <<pc, from_unit, to_unit, these_factors, to_expand, idx,
                   something_added, result, obj, out, loads>>
    /\ ret # NoRet
    /\ ret' = NoRet
    /\ UNCHANGED <<mappings, added>>

\* the enumerations of the registry: two id lists under each name
GeoEnum(name, ids) == PlainEnum("GeographyEnumeration", name, ids)

RegIdLists == {<< <<"a">> >>, << <<"a">>, <<"b">> >>}

\* the mappings that are added: the filters from X to T, Y to T and X to X
RegMappings ==
    {r.obj : r \in {c \in {FilterToSubsetMap(GeoEnum(n[1], fl), GeoEnum(n[2], tl)) :
                                n \in {<< <<"X">>, <<"T">> >>, << <<"Y">>, <<"T">> >>,
                                       << <<"X">>, <<"X">> >>},
                                fl \in RegIdLists, tl \in RegIdLists} :
                        c.exc = "None"}}

\* the datasets mappings are asked for: their geography is X or Z
Datafiles ==
    {[cls |-> "Datafile",
      sector_enum |-> PlainEnum("SectorEnumeration", <<"S">>, << <<"a">> >>),
      geo_enum |-> GeoEnum(n, l),
      enduse_enum |-> PlainEnum("EndUseEnumeration", <<"E">>, << <<"a">> >>),
      time_enum |-> PlainEnum("TimeEnumeration", <<"Y">>, << <<"a">> >>)] :
        n \in {<<"X">>, <<"Z">>}, l \in RegIdLists}

\* the enumerations mappings are asked to: T or X as a geography, T as a
\* sector or time enumeration, and an enumeration of no known class
RegToEnums ==
    {GeoEnum(n, l) : n \in {<<"T">>, <<"X">>}, l \in RegIdLists}
        \cup {PlainEnum("SectorEnumeration", <<"T">>, << <<"a">> >>),
              PlainEnum("TimeEnumeration", <<"T">>, << <<"a">>, <<"b">> >>),
              PlainEnum("Enumeration", <<"T">>, << <<"a">> >>)}

NextReg ==
    \/ \E m \in RegMappings : AddMapping(m)
    \/ \E d \in Datafiles, t \in RegToEnums : GetMappingCall(d, t)
    \/ GetMappingExit

Init == InitUnits /\ InitMap /\ InitReg

SpecUnits == Init /\ [][NextUnits]_vars
SpecUnitsFair == Init /\ [][NextUnits]_vars /\ WF_vars(NextUnits)
SpecMap == Init /\ [][NextMap]_vars
SpecScaling == Init /\ [][NextScaling]_vars
Spec == Init /\ [][NextReg]_vars

----------------------------------------------------------------------------
(* Properties of the factor solver *)

\* the units some seed ratio names
SeedUnits ==
    {CONVERSION_FACTORS[i][1][1] : i \in 1..Len(CONVERSION_FACTORS)}
        \cup {CONVERSION_FACTORS[i][1][2] : i \in 1..Len(CONVERSION_FACTORS)}

\* the seed ratios out of unit a, each with the unit it reaches and its
\* factor: forwards as tabulated, backwards inverted
SeedSteps(a) ==
    {<<CONVERSION_FACTORS[i][1][2], CONVERSION_FACTORS[i][2]>> :
        i \in {j \in 1..Len(CONVERSION_FACTORS) : CONVERSION_FACTORS[j][1][1] = a}}
    \cup
    {<<CONVERSION_FACTORS[i][1][1], 0 - CONVERSION_FACTORS[i][2]>> :
        i \in {j \in 1..Len(CONVERSION_FACTORS) : CONVERSION_FACTORS[j][1][2] = a}}

\* the products of the ratios along the chains from a to b that visit no
\* unit twice
RECURSIVE ChainProducts(_, _, _)
ChainProducts(a, b, visited) ==
    IF a = b THEN {0}
    ELSE UNION {{st[2] + x : x \in ChainProducts(st[1], b, visited \cup {a})} :
                  st \in {t \in SeedSteps(a) : t[1] \notin visited \cup {a}}}

\* a chain of seed ratios joins a and b
Joined(a, b) ==
    a \in SeedUnits /\ b \in SeedUnits /\ ChainProducts(a, b, {}) # {}

\* C3: a call of scaling_factor(a, b) on two units joined by a chain of seed
\* ratios returns (it does not raise) the product of the ratios along the
\* chain, a ratio traversed backwards counting as 1/factor; kWh to GWh is
\* 1e-6, GWh to kWh is 1e6, and scaling_factor(b, a) is the reciprocal.
C3_ChainProduct ==
    /\ pc = "raised" => ~Joined(from_unit, to_unit)
    /\ pc = "returned" /\ Joined(from_unit, to_unit) =>
          /\ ChainProducts(from_unit, to_unit, {}) = {result[1]}
          /\ (from_unit = "kWh" /\ to_unit = "GWh" => result[1] = -6)
          /\ (from_unit = "GWh" /\ to_unit = "kWh" => result[1] = 6)
          /\ scaling_factor(to_unit, from_unit) =
                [raised |-> FALSE, val |-> 0 - result[1]]

\* a factor derived in two passes, through MWh and GWh
C3_Witness ==
    pc = "returned" /\ from_unit = "TWh" /\ to_unit = "kWh" /\ result = <<9>>

\* C4: every call of scaling_factor terminates: the pairs known all end in
\* to_unit, a pass of the expansion loop that is followed by another pass
\* has added a pair, and the call ends; between two units no chain joins it
\* ends by raising, never by returning a factor.
C4_Terminates ==
    /\ [](\A k \in DictKeys(these_factors) :
              k[1] \in SeedUnits /\ k[2] = to_unit)
    /\ [][pc = "while" /\ idx > 0 /\ pc' = "for" =>
              /\ DictKeys(to_expand) \subseteq DictKeys(these_factors)
              /\ DictKeys(to_expand) # DictKeys(these_factors)]_vars
    /\ [](pc = "returned" => Joined(from_unit, to_unit))
    /\ (pc \in {"while", "for"} ~> pc \in {"returned", "raised"})
    /\ (pc \in {"while", "for"} /\ ~Joined(from_unit, to_unit) ~> pc = "raised")

\* Joules to kWh: three passes find every unit of the chain, then the raise
C4_Witness ==
    /\ pc = "raised" /\ from_unit = "Joules" /\ to_unit = "kWh"
    /\ Len(these_factors) = 4

----------------------------------------------------------------------------
(* Properties of the mapping objects *)

\* the result of map(from_id) is null or one member of to_enum.ids
NullOrMember(r, to_enum) ==
    /\ r.exc = "None"
    /\ r.val.t \in {"None", "id"}
    /\ r.val.t = "id" => InIds(r.val.v, to_enum)

\* the result of map(from_id) is a list of members of to_enum.ids
ListOfMembers(r, to_enum) ==
    /\ r.exc = "None"
    /\ r.val.t = "list"
    /\ \A i \in 1..Len(r.val.v) : InIds(r.val.v[i], to_enum)

\* C5 as claimed: for every constructed mapping of every variant and every
\* from_id of its from_enum, map(from_id) is null or a single member of
\* its to_enum.ids.
C5_RangeInvariant ==
    obj # NoObj =>
        \A id \in Range(EnumIds(obj.from_enum)) :
            NullOrMember(Map(obj, id), obj.to_enum)

\* C5 amended: for every constructed mapping and every from_id of its
\* from_enum, map(from_id) is null or a single member of to_enum.ids, except
\* that the map of an ExplicitDisaggregation is a (possibly empty) list of
\* members of to_enum.ids.
C5_RangeInvariantAmended ==
    obj # NoObj =>
        \A id \in Range(EnumIds(obj.from_enum)) :
            IF obj.cls = "ExplicitDisaggregation"
            THEN ListOfMembers(Map(obj, id), obj.to_enum)
            ELSE NullOrMember(Map(obj, id), obj.to_enum)

\* a disaggregation has mapped an id of its from_enum to two ids
C5_Witness ==
    /\ obj # NoObj /\ obj.cls = "ExplicitDisaggregation"
    /\ out.op = "map" /\ InIds(out.arg, obj.from_enum)
    /\ out.val.t = "list" /\ Len(out.val.v) = 2

\* the table of an explicit map names a from_id outside from_enum.ids or a
\* to_id outside to_enum.ids
BadTable(call) ==
    \E i \in 1..Len(call.dictmap) :
        \/ ~InIds(call.dictmap[i][1], call.from_enum)
        \/ IF call.cls = "ExplicitAggregation"
           THEN ~InIds(call.dictmap[i][2], call.to_enum)
           ELSE \E j \in 1..Len(call.dictmap[i][2]) :
                    ~InIds(call.dictmap[i][2][j], call.to_enum)

\* C6: a FullAggregationMap whose to_enum has not exactly one id or whose
\* exclude_list has an entry outside from_enum.ids, and an explicit map
\* whose table names an id outside its enumeration, fail with a
\* ConfigurationError (DSGridError) and yield no object; every constructed
\* FullAggregationMap has one to_id and its exclude_list within from_enum.
C6_EagerValidation ==
    /\ out.op = "construct" /\ out.call.cls = "FullAggregationMap"
         /\ (\/ Len(EnumIds(out.call.to_enum)) # 1
             \/ \E i \in 1..Len(out.call.exclude_list) :
                   ~InIds(out.call.exclude_list[i], out.call.from_enum))
         => out.exc = "DSGridError" /\ obj = NoObj
    /\ out.op = "construct"
         /\ out.call.cls \in {"ExplicitAggregation", "ExplicitDisaggregation"}
         /\ BadTable(out.call)
         => out.exc = "DSGridError" /\ obj = NoObj
    /\ obj # NoObj /\ obj.cls = "FullAggregationMap" =>
         /\ Len(EnumIds(obj.to_enum)) = 1
         /\ Range(obj.exclude_list) \subseteq Range(EnumIds(obj.from_enum))

\* C8: a call of map or scale_factor leaves the mapping object as it was:
\* its lookup tables, from_enum and to_enum.
C8_NoSideEffects ==
    [][out'.op \in {"map", "scale_factor"} => obj' = obj]_vars

\* the weights of a disaggregation without a scaling source
AllOnes(weights, to_ids) ==
    Len(weights) = Len(to_ids) /\ \A i \in 1..Len(weights) : weights[i] = <<1, 1>>

\* C10: a disaggregation built with a scaling source has not loaded it when
\* the constructor returns; the first scaling_datatable access or
\* get_scalings call loads it and no later access loads it again (loads
\* counts the calls of Datatable over the life of the object). Without a
\* source nothing is ever loaded, get_scalings returns one weight 1.0 for
\* each to_id and scaling_datatable is rejected by its assertion.
C10_LazyCacheOnce ==
    obj # NoObj /\ obj.cls = "ExplicitDisaggregation" =>
        /\ loads <= 1
        /\ loads = 1 <=> obj.scaling_datatable_ # NoDatatable
        /\ obj.scaling_datatable_ # NoDatatable =>
              obj.scaling_datatable_ = Datatable(obj.scaling_datafile_)
        /\ out.op = "construct" => loads = 0
        /\ DefaultScaling(obj) =>
              /\ loads = 0
              /\ out.op = "get_scalings" =>
                    out.exc = "None" /\ AllOnes(out.val, out.arg)
              /\ out.op = "scaling_datatable" => out.exc = "AssertionError"
        /\ ~DefaultScaling(obj) =>
              /\ out.op = "scaling_datatable" => out.exc = "None" /\ loads = 1
              /\ out.op = "get_scalings" => loads = 1

\* a disaggregation with a source has answered get_scalings from the table
\* it loaded: a is a quarter and b three quarters of their sum
C10_Witness ==
    /\ obj # NoObj /\ ~DefaultScaling(obj)
    /\ out.op = "get_scalings" /\ out.exc = "None"
    /\ out.val = << <<1, 4>>, <<3, 4>> >>
    /\ loads = 1

----------------------------------------------------------------------------
(* Properties of the registry *)

\* the request the last get_mapping answered
RetFrom == FromEnumOf(ret.datafile, ret.to_enum)[1]
RetKey == <<RetFrom.name, ret.to_enum.name>>
RetAnswered == ret.op = "get_mapping" /\ FromEnumOf(ret.datafile, ret.to_enum) # <<>>

\* C1: when a mapping is stored under the exact key (from_enum.name,
\* to_enum.name), get_mapping returns that stored mapping, also when
\* from_enum equals to_enum or is a subset of it.
C1_ExactKeyFirst ==
    RetAnswered /\ RetKey \in DictKeys(mappings) =>
        ret.exc = "None" /\ ret.val = DictGet(mappings, RetKey)

\* an exact-key match answered a request whose from_enum is a proper subset
\* of to_enum, with a stored mapping that is no tautology
C1_Witness ==
    /\ RetAnswered /\ RetKey \in DictKeys(mappings)
    /\ IsSubset(RetFrom, ret.to_enum) /\ ~IsSubset(ret.to_enum, RetFrom)
    /\ ret.val.cls = "FilterToSubsetMap"

\* the places of the stored mappings that fit the last request: the key's
\* second component is to_enum.name and from_enum.ids holds every id of the
\* dataset's from_enum
Fitting ==
    {i \in 1..Len(mappings) :
        /\ mappings[i][1][2] = ret.to_enum.name
        /\ Range(EnumIds(RetFrom)) \subseteq Range(EnumIds(mappings[i][2].from_enum))}

\* C2: with no exact-key match, from_enum # to_enum and from_enum no subset
\* of to_enum, get_mapping returns the first stored mapping, in the order
\* of the registry, that fits the request; it returns None, and does not
\* raise, exactly when no stored mapping fits.
C2_Fallback ==
    RetAnswered /\ RetKey \notin DictKeys(mappings)
        /\ ~EnumEq(RetFrom, ret.to_enum) /\ ~IsSubset(RetFrom, ret.to_enum) =>
        /\ ret.exc = "None"
        /\ ret.val = NoObj <=> Fitting = {}
        /\ Fitting # {} =>
              \E i \in Fitting : /\ ret.val = mappings[i][2]
                                  /\ \A j \in Fitting : i <= j

\* the scan passed over a stored mapping to T that does not fit and
\* returned a later one that does
C2_Witness ==
    /\ RetAnswered /\ RetKey \notin DictKeys(mappings)
    /\ ~IsSubset(RetFrom, ret.to_enum)
    /\ Len(Candidates(mappings, ret.to_enum)) >= 2
    /\ ret.val # NoObj
    /\ ret.val # Candidates(mappings, ret.to_enum)[1]

\* C7: the registry holds at most one mapping for each key, the one most
\* recently added under it, and get_mapping with that exact key returns it.
C7_LastWriteWins ==
    /\ \A i, j \in 1..Len(mappings) : mappings[i][1] = mappings[j][1] => i = j
    /\ DictKeys(mappings) = DOMAIN added
    /\ \A k \in DOMAIN added : DictGet(mappings, k) = added[k].mapping
    /\ RetAnswered /\ RetKey \in DOMAIN added =>
          ret.val = added[RetKey].mapping

\* a key was written again with another mapping and get_mapping returned
\* the later one
C7_Witness ==
    /\ RetAnswered /\ RetKey \in DOMAIN added
    /\ added[RetKey].rewritten
    /\ ret.val = added[RetKey].mapping

\* C9: get_mapping leaves the registry as it was, whichever step answers;
\* only add_mapping changes it.
C9_ReadOnlyLookup ==
    [][/\ ret'.op = "get_mapping" => mappings' = mappings
       /\ mappings' # mappings =>
             \E m \in RegMappings : mappings' = DictSet(mappings, KeyOf(m), m)]_vars

\* a lookup whose exact key is not stored, answered None after the scan,
\* left a registry of two mappings with two keys
C9_Witness ==
    /\ RetAnswered /\ RetKey \notin DictKeys(mappings)
    /\ ret.exc = "None" /\ ret.val = NoObj
    /\ Len(mappings) = 2

\* C11: every mapping get_mapping returns, whichever step answers, fits
\* the request: its from_enum.ids holds every id of the dataset's
\* enumeration on that axis and its to_enum has the name of the to_enum
\* asked for.
C11_Applicable ==
    RetAnswered /\ ret.exc = "None" /\ ret.val # NoObj =>
        /\ Range(EnumIds(RetFrom)) \subseteq Range(EnumIds(ret.val.from_enum))
        /\ ret.val.to_enum.name = ret.to_enum.name

====
